---- MODULE Spec2Model ----
(***************************************************************************)
(* Fraucheky: the USB Mass Storage Class control responder (fraucheky.c).  *)
(* The three entry points are called by the USB link-layer driver; they    *)
(* call back into the driver's primitives (usb_lld_setup_endpoint,         *)
(* usb_lld_stall_tx, usb_lld_stall_rx, usb_lld_set_data_to_send).  The     *)
(* driver owns the only mutable state: the registers of endpoint 6 and the *)
(* pointer/length of the data to send on the control pipe.                 *)
(***************************************************************************)
EXTENDS Integers, Sequences, FiniteSets, TLC

VARIABLES
    ep,        \* registers of ENDP6, held by the link-layer driver
    outbound,  \* buffer and length last given to usb_lld_set_data_to_send
    lastCall,  \* the entry point invoked last: function, arguments, return value
    calls,     \* the primitive calls that invocation issues, in program order
    pending,   \* those of them not executed yet (the handler's position)
    stops      \* history: the stop arguments of the last HistLen endpoint calls

vars == <<ep, outbound, lastCall, calls, pending, stops>>

(*************************** bounds ****************************************)
MaxDescIndex == 4
HistLen == 3

(*************************** usb_lld.h *************************************)
USB_UNSUPPORT == 0
USB_SUCCESS == 1
DEVICE_RECIPIENT == 0
INTERFACE_RECIPIENT == 1
DEVICE_DESCRIPTOR == 1
CONFIG_DESCRIPTOR == 2
STRING_DESCRIPTOR == 3
INTERFACE_DESCRIPTOR == 4
USB_DEVICE_DESCRIPTOR_TYPE == 1
USB_CONFIGURATION_DESCRIPTOR_TYPE == 2
USB_STRING_DESCRIPTOR_TYPE == 3
USB_INTERFACE_DESCRIPTOR_TYPE == 4
USB_ENDPOINT_DESCRIPTOR_TYPE == 5
REQUEST_DIR == 128
ENDP6 == 6
EP_BULK == 0

\* #define USB_SETUP_GET(req) ((req & REQUEST_DIR) != 0), req a uint8_t
USB_SETUP_GET(req) == (req \div REQUEST_DIR) % 2 = 1

(*************************** fraucheky.c constants *************************)
ENDP6_TXADDR == 384
ENDP6_RXADDR == 448
USB_INITIAL_FEATURE == 128
MSC_GET_MAX_LUN_COMMAND == 254
MSC_MASS_STORAGE_RESET_COMMAND == 255
MSC_TOTAL_LENGTH == 9 + 7 + 7
EP6_MAX_PACKET == 64

(*************************** descriptor tables *****************************)
\* fraucheky-vid-pid-ver.c.inc (generated): idVendor, idProduct, bcdDevice
vid_pid_ver == <<75, 35, 4, 0, 0, 2>>

device_desc ==
    <<18, USB_DEVICE_DESCRIPTOR_TYPE, 16, 1, 0, 0, 0, 64>>
    \o vid_pid_ver
    \o <<1, 2, 3, 1>>

\* the configuration descriptor with wTotalLength taken from MSC_TOTAL_LENGTH
config_desc_msc_total ==
    <<9, USB_CONFIGURATION_DESCRIPTOR_TYPE, MSC_TOTAL_LENGTH, 0, 1, 1, 0,
      USB_INITIAL_FEATURE, 50,
      9, USB_INTERFACE_DESCRIPTOR_TYPE, 0, 0, 2, 8, 6, 80, 0,
      7, USB_ENDPOINT_DESCRIPTOR_TYPE, 134, 2, 64, 0, 0,
      7, USB_ENDPOINT_DESCRIPTOR_TYPE, 6, 2, 64, 0, 0>>

config_desc ==
    <<9, USB_CONFIGURATION_DESCRIPTOR_TYPE, (9 + 9 + 7 + 7), 0, 1, 1, 0,
      USB_INITIAL_FEATURE, 50,
      9, USB_INTERFACE_DESCRIPTOR_TYPE, 0, 0, 2, 8, 6, 80, 0,
      7, USB_ENDPOINT_DESCRIPTOR_TYPE, 134, 2, 64, 0, 0,
      7, USB_ENDPOINT_DESCRIPTOR_TYPE, 6, 2, 64, 0, 0>>

string_lang_id == <<4, USB_STRING_DESCRIPTOR_TYPE, 9, 4>>

\* a string descriptor: bLength, bDescriptorType, then UTF-16LE code units
RECURSIVE Utf16le(_)
Utf16le(s) == IF s = <<>> THEN <<>> ELSE <<Head(s), 0>> \o Utf16le(Tail(s))

StringDesc(s) == <<2 * Len(s) + 2, USB_STRING_DESCRIPTOR_TYPE>> \o Utf16le(s)

\* fraucheky-usb-strings.c.inc (generated): "Free Software Initiative of Japan"
string_vendor ==
    StringDesc(<<70, 114, 101, 101, 32, 83, 111, 102, 116, 119, 97, 114, 101,
                 32, 73, 110, 105, 116, 105, 97, 116, 105, 118, 101, 32, 111,
                 102, 32, 74, 97, 112, 97, 110>>)

\* fraucheky-usb-strings.c.inc (generated): "Fraucheky"
string_product == StringDesc(<<70, 114, 97, 117, 99, 104, 101, 107, 121>>)

\* "FSIJ-0.0"
string_serial ==
    <<8 * 2 + 2, USB_STRING_DESCRIPTOR_TYPE,
      70, 0, 83, 0, 73, 0, 74, 0, 45, 0, 48, 0, 46, 0, 48, 0>>

lun_table == <<0, 0, 0, 0>>

\* the static buffers by name: a pointer is modelled by the buffer's name
Mem ==
    [device_desc |-> device_desc,
     config_desc |-> config_desc,
     string_lang_id |-> string_lang_id,
     string_vendor |-> string_vendor,
     string_product |-> string_product,
     string_serial |-> string_serial,
     lun_table |-> lun_table]

SizeOf(buf) == Len(Mem[buf])

\* struct desc { const uint8_t *desc; uint16_t size; }
\* C index i is position i + 1 of the sequence
string_descriptors ==
    <<[desc |-> "string_lang_id", size |-> SizeOf("string_lang_id")],
      [desc |-> "string_vendor", size |-> SizeOf("string_vendor")],
      [desc |-> "string_product", size |-> SizeOf("string_product")],
      [desc |-> "string_serial", size |-> SizeOf("string_serial")]>>

NumStringDescriptors == Len(string_descriptors)

(*************************** link-layer driver *****************************)
\* the primitives fraucheky.c calls, as call records
SetupEndpointCall(ep_num, ep_type, ep_kind, rx_addr, tx_addr, rx_size) ==
    [prim |-> "usb_lld_setup_endpoint", buf |-> "",
     args |-> <<ep_num, ep_type, ep_kind, rx_addr, tx_addr, rx_size>>]

StallTxCall(ep_num) ==
    [prim |-> "usb_lld_stall_tx", buf |-> "", args |-> <<ep_num>>]

StallRxCall(ep_num) ==
    [prim |-> "usb_lld_stall_rx", buf |-> "", args |-> <<ep_num>>]

SetDataToSendCall(buf, len) ==
    [prim |-> "usb_lld_set_data_to_send", buf |-> buf, args |-> <<len>>]

\* endpoint 6 after a USB reset: both directions disabled
EpReset ==
    [type |-> 0, kind |-> 0, rx |-> "DISABLED", tx |-> "DISABLED",
     rxaddr |-> 0, txaddr |-> 0, rxsize |-> 0]

NoData == [buf |-> "", len |-> 0]

\* usb_lld_setup_endpoint: type and kind are written; a direction with a
\* buffer address gets the address and becomes ready (rx VALID, tx NAK), a
\* direction without one is disabled
usb_lld_setup_endpoint(e, a) ==
    [type |-> a[2], kind |-> a[3],
     rx |-> IF a[4] # 0 THEN "VALID" ELSE "DISABLED",
     tx |-> IF a[5] # 0 THEN "NAK" ELSE "DISABLED",
     rxaddr |-> IF a[4] # 0 THEN a[4] ELSE e.rxaddr,
     txaddr |-> IF a[5] # 0 THEN a[5] ELSE e.txaddr,
     rxsize |-> IF a[4] # 0 THEN a[6] ELSE e.rxsize]

usb_lld_stall_tx(e) == [e EXCEPT !.tx = "STALL"]

usb_lld_stall_rx(e) == [e EXCEPT !.rx = "STALL"]

usb_lld_set_data_to_send(buf, len) == [buf |-> buf, len |-> len]

\* the driver state after one primitive call (only ENDP6 is modelled)
ExecEp(c, e) ==
    IF c.prim = "usb_lld_set_data_to_send" \/ c.args[1] # ENDP6 THEN e
    ELSE IF c.prim = "usb_lld_setup_endpoint" THEN usb_lld_setup_endpoint(e, c.args)
    ELSE IF c.prim = "usb_lld_stall_tx" THEN usb_lld_stall_tx(e)
    ELSE usb_lld_stall_rx(e)

ExecOut(c, o) ==
    IF c.prim = "usb_lld_set_data_to_send"
    THEN usb_lld_set_data_to_send(c.buf, c.args[1])
    ELSE o

\* the bytes the control pipe would send
Sent == SubSeq(Mem[outbound.buf], 1, outbound.len)

(*************************** entry points **********************************)
\* each yields the return value and the primitive calls in program order
NoRet == 0 - 1

\* variant: the test of stop inverted
fraucheky_setup_endpoints_for_interface_inverted(stop) ==
    IF stop # 0
    THEN [ret |-> NoRet,
          calls |-> <<SetupEndpointCall(ENDP6, EP_BULK, 0, ENDP6_RXADDR,
                                        ENDP6_TXADDR, EP6_MAX_PACKET)>>]
    ELSE [ret |-> NoRet, calls |-> <<StallTxCall(ENDP6), StallRxCall(ENDP6)>>]

\* variant: a stop stalls the transmit direction only
fraucheky_setup_endpoints_for_interface_tx_only(stop) ==
    IF stop = 0
    THEN [ret |-> NoRet,
          calls |-> <<SetupEndpointCall(ENDP6, EP_BULK, 0, ENDP6_RXADDR,
                                        ENDP6_TXADDR, EP6_MAX_PACKET)>>]
    ELSE [ret |-> NoRet, calls |-> <<StallTxCall(ENDP6)>>]

fraucheky_setup_endpoints_for_interface(stop) ==
    IF stop = 0
    THEN [ret |-> NoRet,
          calls |-> <<SetupEndpointCall(ENDP6, EP_BULK, 0, ENDP6_RXADDR,
                                        ENDP6_TXADDR, EP6_MAX_PACKET)>>]
    ELSE [ret |-> NoRet, calls |-> <<StallTxCall(ENDP6), StallRxCall(ENDP6)>>]

\* variant: the else of the direction test lost, so that the reset test also
\* runs for GET requests
fraucheky_setup_get_accepts_reset(req, req_no, value, len) ==
    IF USB_SETUP_GET(req) /\ req_no = MSC_GET_MAX_LUN_COMMAND
    THEN [ret |-> USB_SUCCESS,
          calls |-> <<SetDataToSendCall("lun_table", SizeOf("lun_table"))>>]
    ELSE IF req_no = MSC_MASS_STORAGE_RESET_COMMAND
         THEN [ret |-> USB_SUCCESS, calls |-> <<>>]
         ELSE [ret |-> USB_UNSUPPORT, calls |-> <<>>]

\* variant: GET_MAX_LUN answered without the direction test
fraucheky_setup_no_direction(req, req_no, value, len) ==
    IF req_no = MSC_GET_MAX_LUN_COMMAND
    THEN [ret |-> USB_SUCCESS,
          calls |-> <<SetDataToSendCall("lun_table", SizeOf("lun_table"))>>]
    ELSE IF ~USB_SETUP_GET(req) /\ req_no = MSC_MASS_STORAGE_RESET_COMMAND
         THEN [ret |-> USB_SUCCESS, calls |-> <<>>]
         ELSE [ret |-> USB_UNSUPPORT, calls |-> <<>>]

\* variant: MASS_STORAGE_RESET stalls the bulk endpoint
fraucheky_setup_reset_stalls(req, req_no, value, len) ==
    IF USB_SETUP_GET(req)
    THEN IF req_no = MSC_GET_MAX_LUN_COMMAND
         THEN [ret |-> USB_SUCCESS,
               calls |-> <<SetDataToSendCall("lun_table", SizeOf("lun_table"))>>]
         ELSE [ret |-> USB_UNSUPPORT, calls |-> <<>>]
    ELSE IF req_no = MSC_MASS_STORAGE_RESET_COMMAND
         THEN [ret |-> USB_SUCCESS,
               calls |-> <<StallTxCall(ENDP6), StallRxCall(ENDP6)>>]
         ELSE [ret |-> USB_UNSUPPORT, calls |-> <<>>]

fraucheky_setup(req, req_no, value, len) ==
    IF USB_SETUP_GET(req)
    THEN IF req_no = MSC_GET_MAX_LUN_COMMAND
         THEN [ret |-> USB_SUCCESS,
               calls |-> <<SetDataToSendCall("lun_table", SizeOf("lun_table"))>>]
         ELSE [ret |-> USB_UNSUPPORT, calls |-> <<>>]
    ELSE IF req_no = MSC_MASS_STORAGE_RESET_COMMAND
         THEN [ret |-> USB_SUCCESS, calls |-> <<>>]
         ELSE [ret |-> USB_UNSUPPORT, calls |-> <<>>]

\* variant: the bounds check one short of the table
fraucheky_get_descriptor_short_table(rcp, desc_type, desc_index, index) ==
    IF rcp = DEVICE_RECIPIENT /\ index = 0
    THEN IF desc_type = DEVICE_DESCRIPTOR
         THEN [ret |-> USB_SUCCESS,
               calls |-> <<SetDataToSendCall("device_desc", SizeOf("device_desc"))>>]
         ELSE IF desc_type = CONFIG_DESCRIPTOR
         THEN [ret |-> USB_SUCCESS,
               calls |-> <<SetDataToSendCall("config_desc", SizeOf("config_desc"))>>]
         ELSE IF desc_type = STRING_DESCRIPTOR /\ desc_index < NumStringDescriptors - 1
         THEN [ret |-> USB_SUCCESS,
               calls |-> <<SetDataToSendCall(string_descriptors[desc_index + 1].desc,
                                             string_descriptors[desc_index + 1].size)>>]
         ELSE [ret |-> USB_UNSUPPORT, calls |-> <<>>]
    ELSE [ret |-> USB_UNSUPPORT, calls |-> <<>>]

\* variant: the language index not tested
fraucheky_get_descriptor_any_language(rcp, desc_type, desc_index, index) ==
    IF rcp = DEVICE_RECIPIENT
    THEN IF desc_type = DEVICE_DESCRIPTOR
         THEN [ret |-> USB_SUCCESS,
               calls |-> <<SetDataToSendCall("device_desc", SizeOf("device_desc"))>>]
         ELSE IF desc_type = CONFIG_DESCRIPTOR
         THEN [ret |-> USB_SUCCESS,
               calls |-> <<SetDataToSendCall("config_desc", SizeOf("config_desc"))>>]
         ELSE IF desc_type = STRING_DESCRIPTOR /\ desc_index < NumStringDescriptors
         THEN [ret |-> USB_SUCCESS,
               calls |-> <<SetDataToSendCall(string_descriptors[desc_index + 1].desc,
                                             string_descriptors[desc_index + 1].size)>>]
         ELSE [ret |-> USB_UNSUPPORT, calls |-> <<>>]
    ELSE [ret |-> USB_UNSUPPORT, calls |-> <<>>]

\* variant: device and configuration descriptor exchanged
fraucheky_get_descriptor_swapped(rcp, desc_type, desc_index, index) ==
    IF rcp = DEVICE_RECIPIENT /\ index = 0
    THEN IF desc_type = DEVICE_DESCRIPTOR
         THEN [ret |-> USB_SUCCESS,
               calls |-> <<SetDataToSendCall("config_desc", SizeOf("config_desc"))>>]
         ELSE IF desc_type = CONFIG_DESCRIPTOR
         THEN [ret |-> USB_SUCCESS,
               calls |-> <<SetDataToSendCall("device_desc", SizeOf("device_desc"))>>]
         ELSE IF desc_type = STRING_DESCRIPTOR /\ desc_index < NumStringDescriptors
         THEN [ret |-> USB_SUCCESS,
               calls |-> <<SetDataToSendCall(string_descriptors[desc_index + 1].desc,
                                             string_descriptors[desc_index + 1].size)>>]
         ELSE [ret |-> USB_UNSUPPORT, calls |-> <<>>]
    ELSE [ret |-> USB_UNSUPPORT, calls |-> <<>>]

fraucheky_get_descriptor(rcp, desc_type, desc_index, index) ==
    IF rcp = DEVICE_RECIPIENT /\ index = 0
    THEN IF desc_type = DEVICE_DESCRIPTOR
         THEN [ret |-> USB_SUCCESS,
               calls |-> <<SetDataToSendCall("device_desc", SizeOf("device_desc"))>>]
         ELSE IF desc_type = CONFIG_DESCRIPTOR
         THEN [ret |-> USB_SUCCESS,
               calls |-> <<SetDataToSendCall("config_desc", SizeOf("config_desc"))>>]
         ELSE IF desc_type = STRING_DESCRIPTOR /\ desc_index < NumStringDescriptors
         THEN [ret |-> USB_SUCCESS,
               calls |-> <<SetDataToSendCall(string_descriptors[desc_index + 1].desc,
                                             string_descriptors[desc_index + 1].size)>>]
         ELSE [ret |-> USB_UNSUPPORT, calls |-> <<>>]
    ELSE [ret |-> USB_UNSUPPORT, calls |-> <<>>]

(*************************** inputs ****************************************)
StopValues == {0, 1}
Reqs == {33, 161}                 \* class request to interface: SET, GET
ReqNos == {0, MSC_GET_MAX_LUN_COMMAND, MSC_MASS_STORAGE_RESET_COMMAND}
Values == {0, 1}
Lens == {0, 4}
Recipients == {DEVICE_RECIPIENT, INTERFACE_RECIPIENT}
DescTypes == {DEVICE_DESCRIPTOR, CONFIG_DESCRIPTOR, STRING_DESCRIPTOR,
              INTERFACE_DESCRIPTOR}
DescIndexes == (0 .. MaxDescIndex) \cup {255}
LangIndexes == {0, 1033}

EndpointsInputs == {[fn |-> "fraucheky_setup_endpoints_for_interface", args |-> <<s>>] :
                       s \in StopValues}
SetupInputs == {[fn |-> "fraucheky_setup", args |-> <<r, n, v, l>>] :
                   r \in Reqs, n \in ReqNos, v \in Values, l \in Lens}
DescInputs == {[fn |-> "fraucheky_get_descriptor", args |-> <<r, t, i, x>>] :
                  r \in Recipients, t \in DescTypes, i \in DescIndexes,
                  x \in LangIndexes}
Inputs == EndpointsInputs \cup SetupInputs \cup DescInputs

(*************************** state machine *********************************)
NoCall == [fn |-> "", args |-> <<>>, ret |-> NoRet]
Idle == pending = <<>>

Init ==
    /\ ep = EpReset
    /\ outbound = NoData
    /\ lastCall = NoCall
    /\ calls = <<>>
    /\ pending = <<>>
    /\ stops = <<>>

\* entry to a handler: it runs up to and including its first primitive call
Enter(in, r) ==
    /\ Idle
    /\ lastCall' = [fn |-> in.fn, args |-> in.args, ret |-> r.ret]
    /\ calls' = r.calls
    /\ IF r.calls = <<>>
       THEN /\ pending' = <<>>
            /\ UNCHANGED <<ep, outbound>>
       ELSE /\ pending' = Tail(r.calls)
            /\ ep' = ExecEp(Head(r.calls), ep)
            /\ outbound' = ExecOut(Head(r.calls), outbound)

CallSetupEndpoints(S) ==
    \E in \in S :
        /\ in.fn = "fraucheky_setup_endpoints_for_interface"
        /\ Enter(in, fraucheky_setup_endpoints_for_interface(in.args[1]))

CallSetup(S) ==
    \E in \in S :
        /\ in.fn = "fraucheky_setup"
        /\ Enter(in, fraucheky_setup(in.args[1], in.args[2], in.args[3], in.args[4]))

CallGetDescriptor(S) ==
    \E in \in S :
        /\ in.fn = "fraucheky_get_descriptor"
        /\ Enter(in, fraucheky_get_descriptor(in.args[1], in.args[2], in.args[3],
                                              in.args[4]))

\* the handler in progress issues its next primitive call; no other entry
\* point runs until it has returned (single-threaded, section 5 of the spec)
Continue ==
    /\ ~Idle
    /\ ep' = ExecEp(Head(pending), ep)
    /\ outbound' = ExecOut(Head(pending), outbound)
    /\ pending' = Tail(pending)
    /\ UNCHANGED <<lastCall, calls>>

(* History: the stop arguments of the last HistLen endpoint calls. *)
LastN(s, n) == IF Len(s) <= n THEN s ELSE SubSeq(s, Len(s) - n + 1, Len(s))

RecordStops ==
    stops' = IF Idle /\ lastCall'.fn = "fraucheky_setup_endpoints_for_interface"
             THEN LastN(Append(stops, lastCall'.args[1]), HistLen)
             ELSE stops

SetupEndpoints == CallSetupEndpoints(Inputs) /\ RecordStops
Setup == CallSetup(Inputs) /\ RecordStops
GetDescriptor == CallGetDescriptor(Inputs) /\ RecordStops
NextPrimitive == Continue /\ RecordStops

Next == SetupEndpoints \/ Setup \/ GetDescriptor \/ NextPrimitive

Spec == Init /\ [][Next]_vars

(*************************** properties ************************************)
Fn == lastCall.fn
Arg(i) == lastCall.args[i]
Returned(fn) == Idle /\ Fn = fn

Active ==
    /\ ep.type = 0
    /\ ep.rx = "VALID"
    /\ ep.tx = "NAK"
    /\ ep.rxaddr = 448
    /\ ep.txaddr = 384
    /\ ep.rxsize = 64

StalledBoth == ep.tx = "STALL" /\ ep.rx = "STALL"

OnlyDataCalls == \A i \in 1 .. Len(calls) : calls[i].prim = "usb_lld_set_data_to_send"

\* C1: get_descriptor(DEVICE, STRING, i, 0) succeeds for i in 0..3 and hands
\* the i-th entry of the table (language-ID, vendor, product, serial) with that
\* entry's own length to set-data-to-send; for i >= 4 it returns Unsupported.
C1_StringDescriptors ==
    (/\ Returned("fraucheky_get_descriptor")
     /\ Arg(1) = 0 /\ Arg(2) = 3 /\ Arg(4) = 0)
    => LET names == <<"string_lang_id", "string_vendor", "string_product",
                      "string_serial">>
           bytes == <<string_lang_id, string_vendor, string_product, string_serial>>
           i == Arg(3)
       IN IF i < 4
          THEN /\ lastCall.ret = 1
               /\ calls = <<SetDataToSendCall(names[i + 1], Len(bytes[i + 1]))>>
               /\ outbound = [buf |-> names[i + 1], len |-> Len(bytes[i + 1])]
               /\ Sent = bytes[i + 1]
               /\ (i = 0 => Sent = <<4, 3, 9, 4>>)
          ELSE lastCall.ret = 0 /\ calls = <<>>

C1_Witness ==
    /\ Returned("fraucheky_get_descriptor")
    /\ lastCall.args = <<0, 3, 3, 0>>
    /\ lastCall.ret = 1
    /\ outbound.len = 18
    /\ Sent = string_serial

\* C2: get_descriptor with a recipient other than DEVICE, or a language index
\* other than 0, returns Unsupported for every descriptor type and index.
C2_OtherRecipientOrLanguage ==
    (/\ Returned("fraucheky_get_descriptor")
     /\ (Arg(1) # 0 \/ Arg(4) # 0))
    => lastCall.ret = 0

C2_Witness ==
    /\ Returned("fraucheky_get_descriptor")
    /\ lastCall.args = <<0, 1, 0, 1033>>
    /\ lastCall.ret = 0

\* C3: in the GET direction setup returns Success exactly for request 0xFE,
\* and then sends exactly 4 zero bytes; every other request code (0xFF
\* included) returns Unsupported, whatever value and length are.
C3_GetDirection ==
    (Returned("fraucheky_setup") /\ Arg(1) >= 128)
    => IF Arg(2) = 254
       THEN /\ lastCall.ret = 1
            /\ calls = <<SetDataToSendCall("lun_table", 4)>>
            /\ Sent = <<0, 0, 0, 0>>
       ELSE lastCall.ret = 0

C3_Witness ==
    /\ Returned("fraucheky_setup")
    /\ lastCall.args = <<161, 254, 1, 0>>
    /\ lastCall.ret = 1
    /\ Sent = <<0, 0, 0, 0>>

\* C4: in the SET direction setup returns Success exactly for request 0xFF,
\* every other request code (0xFE included) returns Unsupported, and no
\* SET-direction request calls set-data-to-send.
C4_SetDirection ==
    (Returned("fraucheky_setup") /\ Arg(1) < 128)
    => /\ lastCall.ret = (IF Arg(2) = 255 THEN 1 ELSE 0)
       /\ calls = <<>>

C4_Witness ==
    /\ Returned("fraucheky_setup")
    /\ lastCall.args = <<33, 255, 1, 4>>
    /\ lastCall.ret = 1
    /\ calls = <<>>
    /\ outbound = NoData

\* C5: after setup_endpoints_for_interface returns, the endpoint state is
\* fixed by that call's argument: stop gives stalled on both directions,
\* not-stop gives active bulk with rx 0x1c0, tx 0x180 and 64 bytes; so the
\* calls (false), (true), (false) end in the active bulk state.
C5_EndpointByArgument ==
    Returned("fraucheky_setup_endpoints_for_interface")
    => IF Arg(1) # 0 THEN StalledBoth ELSE Active

C5_Witness ==
    /\ Returned("fraucheky_setup_endpoints_for_interface")
    /\ stops = <<0, 1, 0>>
    /\ Active

RECURSIVE BLengths(_, _)
\* the bLength fields of the descriptors packed in d from position pos on
BLengths(d, pos) ==
    IF pos > Len(d) \/ d[pos] = 0 THEN <<>>
    ELSE <<d[pos]>> \o BLengths(d, pos + d[pos])

\* C7: get_descriptor(DEVICE, CONFIG, any index, 0) succeeds and sends the
\* configuration descriptor; its wTotalLength (bytes 2-3, little-endian) is
\* the length handed to set-data-to-send, 32, and is the sum of the bLength
\* fields of the descriptors it holds, 9 + 9 + 7 + 7.
C7_ConfigTotalLength ==
    (/\ Returned("fraucheky_get_descriptor")
     /\ Arg(1) = 0 /\ Arg(2) = 2 /\ Arg(4) = 0)
    => /\ lastCall.ret = 1
       /\ calls = <<SetDataToSendCall("config_desc", 32)>>
       /\ outbound.len = 32
       /\ Len(Sent) = 32
       /\ Sent[3] + 256 * Sent[4] = outbound.len
       /\ BLengths(Sent, 1) = <<9, 9, 7, 7>>
       /\ Sent[3] + 256 * Sent[4] = 9 + 9 + 7 + 7

C7_Witness ==
    /\ Returned("fraucheky_get_descriptor")
    /\ lastCall.args = <<0, 2, 255, 0>>
    /\ lastCall.ret = 1
    /\ Sent[3] = 32

\* C8: get_descriptor(DEVICE, DEVICE, any index, 0) succeeds and sends the
\* device descriptor with length 18; byte 0 is 18, byte 1 the device type tag.
C8_DeviceDescriptor ==
    (/\ Returned("fraucheky_get_descriptor")
     /\ Arg(1) = 0 /\ Arg(2) = 1 /\ Arg(4) = 0)
    => /\ lastCall.ret = 1
       /\ calls = <<SetDataToSendCall("device_desc", 18)>>
       /\ Len(Sent) = 18
       /\ Sent[1] = 18
       /\ Sent[2] = 1
       /\ Sent = device_desc

C8_Witness ==
    /\ Returned("fraucheky_get_descriptor")
    /\ lastCall.args = <<0, 1, 4, 0>>
    /\ lastCall.ret = 1
    /\ Sent[1] = 18

\* the first call to setup_endpoints_for_interface has returned
AfterFirstEndpointsCall == Len(stops) > 1 \/ (Len(stops) = 1 /\ Idle)

\* C9 as stated: after the first endpoint call, in every state, also between
\* the primitive calls of a handler, the endpoint is active or stalled on both
\* directions.
C9_NoIntermediateState ==
    AfterFirstEndpointsCall => (Active \/ StalledBoth)

\* C9: whenever no entry point is in progress after the first endpoint call
\* has returned, the endpoint is active or stalled on both directions.  An
\* entry point is in progress only inside a call with stop set, between its
\* stall-transmit and its stall-receive call; there transmit is stalled and
\* the rest of the endpoint, receive included, is exactly as it was when the
\* call began: receive still valid after an active endpoint (one direction
\* stalled), already stalled after a stalled one, still disabled in the first
\* call after a reset.
C9_AtReturnAndBetween ==
    /\ (Idle /\ AfterFirstEndpointsCall) => (Active \/ StalledBoth)
    /\ ~Idle => /\ lastCall = [fn |-> "fraucheky_setup_endpoints_for_interface",
                               args |-> <<1>>, ret |-> NoRet]
                /\ pending = <<StallRxCall(6)>>
                /\ ep.tx = "STALL"
                /\ ep.rx = (IF Len(stops) = 1 THEN "DISABLED"
                            ELSE IF stops[Len(stops) - 1] = 0 THEN "VALID"
                            ELSE "STALL")

\* the step into the state between the two stall calls changes transmit only
C9_EnterStep ==
    (Idle /\ ~Idle') => ep' = [ep EXCEPT !.tx = "STALL"]

\* C9 (amended): the state predicate above in every state, and the step into
\* the state between the stall calls changing the transmit direction only
C9_BinaryAtReturn == []C9_AtReturnAndBetween /\ [][C9_EnterStep]_vars

C9_Witness ==
    /\ ~Idle
    /\ stops = <<0, 1>>
    /\ ep.tx = "STALL"
    /\ ep.rx = "VALID"

\* C10: a call of setup or get_descriptor that returns Unsupported issues no
\* primitive call and leaves the outbound data alone; no call of setup or
\* get_descriptor, an acknowledged MASS_STORAGE_RESET included, issues a
\* configure-endpoint or stall call, and the endpoint registers stay as they
\* were.
C10_Step ==
    lastCall'.fn \in {"fraucheky_setup", "fraucheky_get_descriptor"}
    => /\ ep' = ep
       /\ OnlyDataCalls'
       /\ lastCall'.ret = 0 => (calls' = <<>> /\ outbound' = outbound)

C10_ErrorsAndRequestsLeaveState == [][C10_Step]_vars

C10_Witness ==
    /\ Returned("fraucheky_setup")
    /\ lastCall.args = <<33, 254, 0, 0>>
    /\ lastCall.ret = 0
    /\ StalledBoth
    /\ outbound.buf = "config_desc"
====
